---- MODULE Spec2Model ----
(***************************************************************************)
(* The capture record of ez-shark (src-tauri/src/traffic.rs): the Traffic  *)
(* record and its lifecycle operations, the process-wide id counter, the   *)
(* body resolver Body::read, and the export operations built on them.      *)
(*                                                                         *)
(* Conventions.  Option<T> is a sequence of length at most one: None is    *)
(* <<>> and Some(x) is <<x>>.  A Rust String whose characters matter is a  *)
(* sequence of one-character strings; a path is a sequence of components   *)
(* whose last component may be a suffix of the ENCODING_EXTS table.  A     *)
(* timestamp is a whole number of milliseconds read from `clock`.          *)
(***************************************************************************)
EXTENDS Integers, Sequences, FiniteSets, TLC

VARIABLES
    GLOBAL_ID,  \* static GLOBAL_ID: AtomicU64
    traffic,    \* the Traffic record owned by the capture task
    issued,     \* history: the values returned by GLOBAL_ID.fetch_add, in order
    clock,      \* the value OffsetDateTime::now_utc() last returned
    fs,         \* the body files on disk, by path
    added,      \* history: the messages passed to add_error on the record, in order
    last        \* history: the last operation performed and what it returned

vars == <<GLOBAL_ID, traffic, issued, clock, fs, added, last>>

(***************************************************************************)
(* Bounds of the model.                                                    *)
(***************************************************************************)
MaxTime == 1        \* the clock runs from 0 to MaxTime
MaxSize == 1        \* raw_size passed to done_res_body ranges over 0..MaxSize
MaxErrLen == 5      \* the error text holds at most MaxErrLen characters
MaxIds == 3         \* Traffic::new is called at most MaxIds times
MaxBody == 2        \* a body file holds at most MaxBody bytes
MaxHeaders == 2     \* a request carries at most MaxHeaders headers

(***************************************************************************)
(* Option<T>                                                               *)
(***************************************************************************)
None == <<>>
Some(x) == <<x>>
is_some(o) == o # <<>>
is_none(o) == o = <<>>
unwrap(o) == o[1]

(***************************************************************************)
(* enum TransactionState                                                   *)
(***************************************************************************)
TransactionState ==
    {"Pending", "Requesting", "Responding", "ResponseDone",
     "Completed", "Failed", "Aborted"}

(***************************************************************************)
(* crate::utils::ENCODING_EXTS: the table of (encoding, suffix) pairs.     *)
(***************************************************************************)
ENCODING_EXTS ==
    << <<"deflate", ".enc.deflate">>, <<"gzip", ".enc.gz">>, <<"br", ".enc.br">> >>

\* str::strip_suffix: the path without `ext` when it ends with it
strip_suffix(path, ext) ==
    IF Len(path) > 0 /\ path[Len(path)] = ext
    THEN Some(SubSeq(path, 1, Len(path) - 1))
    ELSE None

\* ENCODING_EXTS.into_iter().find_map(|(encoding, ext)| path.strip_suffix(ext)
\*     .map(|v| (v, encoding))): the first entry of the table whose suffix matches
find_encoding(path) ==
    LET hits == {i \in 1..Len(ENCODING_EXTS) :
                    is_some(strip_suffix(path, ENCODING_EXTS[i][2]))}
    IN  IF hits = {} THEN None
        ELSE LET i == CHOOSE j \in hits : \A k \in hits : j <= k
             IN  Some([new_path |-> unwrap(strip_suffix(path, ENCODING_EXTS[i][2])),
                       encoding |-> ENCODING_EXTS[i][1]])

(***************************************************************************)
(* struct Headers / Header                                                 *)
(***************************************************************************)
RECURSIVE SumSeq(_)
SumSeq(s) == IF s = <<>> THEN 0 ELSE Head(s) + SumSeq(Tail(s))

\* Header::new
Header_new(name, value) == [name |-> name, value |-> value]

\* fn map_headers: one Header per entry of the header map, in order
map_headers(headers) ==
    [i \in 1..Len(headers) |-> Header_new(headers[i].name, headers[i].value)]

\* fn cal_headers_size: sum of (name + value + 12) over the entries, plus 7
cal_headers_size(headers) ==
    SumSeq([i \in 1..Len(headers) |->
               Len(headers[i].name) + Len(headers[i].value) + 12]) + 7

\* Headers::new
Headers_new(headers) ==
    [items |-> map_headers(headers), size |-> cal_headers_size(headers)]

(***************************************************************************)
(* GLOBAL_ID.fetch_add(1, Relaxed): one atomic read-modify-write; returns  *)
(* the previous value.  The counter is a u64; the model stops creating     *)
(* records after MaxIds calls, far below the wrap at 2^64.                 *)
(***************************************************************************)
\* the counter read and returned without the add
fetch_add_lost(counter, n) == [ret |-> counter, counter |-> counter]

fetch_add(counter, n) == [ret |-> counter, counter |-> counter + n]

(***************************************************************************)
(* impl Traffic                                                            *)
(***************************************************************************)
\* Traffic::new, given the value fetch_add returned
Traffic_new(gid, uri, method, session_id) ==
    [gid |-> gid,
     session_id |-> session_id,
     uri |-> uri,
     method |-> method,
     transaction_state |-> "Pending",
     req_headers |-> None,
     req_body_file |-> None,
     req_body_hex |-> None,
     status |-> None,
     http_version |-> None,
     res_headers |-> None,
     res_body_file |-> None,
     res_body_size |-> None,
     res_body_hex |-> None,
     start_time |-> None,
     end_time |-> None,
     websocket_id |-> None,
     error |-> None,
     valid |-> TRUE]

\* add_error putting the new message in front of the recorded text
add_error_prepend(t, error) ==
    [t EXCEPT !.error =
        IF is_some(t.error)
        THEN Some(error \o <<"\n">> \o unwrap(t.error))
        ELSE Some(error)]

\* Traffic::add_error; the error text is a sequence of characters
add_error(t, error) ==
    IF is_some(t.error)
    THEN [t EXCEPT !.error = Some(unwrap(t.error) \o <<"\n">> \o error)]
    ELSE [t EXCEPT !.error = Some(error)]

\* `duration.whole_milliseconds() as u64`: the cast of an i128 keeps the value
\* modulo 2^64.  The result is pow64 * 2^64 + rest: a negative d becomes 2^64 + d
as_u64(d) == [pow64 |-> IF d < 0 THEN 1 ELSE 0, rest |-> d]

\* `v as isize` of a u64: the value modulo 2^64 again, read as signed
as_isize(v) == v.rest

\* Traffic::time
time(t) ==
    IF is_some(t.end_time) /\ is_some(t.start_time)
    THEN Some(as_u64(unwrap(t.end_time) - unwrap(t.start_time)))
    ELSE None

set_req_headers(t, headers) == [t EXCEPT !.req_headers = Some(Headers_new(headers))]

\* set_req_body_file writing the path to the response side
set_req_body_file_swapped(t, path) == [t EXCEPT !.res_body_file = Some(path)]

set_req_body_file(t, path) == [t EXCEPT !.req_body_file = Some(path)]

set_res_status(t, status) == [t EXCEPT !.status = Some(status)]

\* set_transaction_state refusing to leave a terminal state
set_transaction_state_guarded(t, state) ==
    IF t.transaction_state \in {"Completed", "Failed", "Aborted"}
    THEN t
    ELSE [t EXCEPT !.transaction_state = state]

set_transaction_state(t, state) == [t EXCEPT !.transaction_state = state]

set_http_version(t, http_version) == [t EXCEPT !.http_version = Some(http_version)]

set_res_headers(t, headers) == [t EXCEPT !.res_headers = Some(Headers_new(headers))]

set_res_body_file(t, path) == [t EXCEPT !.res_body_file = Some(path)]

check_match(t) == [t EXCEPT !.valid = t.valid]

set_start_time(t, now) == [t EXCEPT !.start_time = Some(now)]

\* Traffic::uncompress_res_file; `ok` is the outcome of utils::uncompress_file,
\* which the code discards (`let _ = ...`)
uncompress_res_file(t, ok) ==
    IF is_none(t.res_body_file) THEN t
    ELSE LET found == find_encoding(unwrap(t.res_body_file))
         IN  IF is_none(found) THEN t
             ELSE [t EXCEPT !.res_body_file = Some(unwrap(found).new_path)]

\* done_res_body without the test of self.error
done_res_body_unguarded(t, raw_size, now) ==
    LET t1 == IF raw_size = 0 THEN [t EXCEPT !.res_body_file = None] ELSE t
    IN  [t1 EXCEPT !.end_time = Some(now), !.res_body_size = Some(raw_size)]

\* done_res_body with the test of self.error inverted
done_res_body_inverted(t, raw_size, now) ==
    LET t1 == IF raw_size = 0 THEN [t EXCEPT !.res_body_file = None] ELSE t
    IN  IF is_some(t1.error)
        THEN [t1 EXCEPT !.end_time = Some(now), !.res_body_size = Some(raw_size)]
        ELSE t1

\* Traffic::done_res_body
done_res_body(t, raw_size, now) ==
    LET t1 == IF raw_size = 0 THEN [t EXCEPT !.res_body_file = None] ELSE t
    IN  IF is_none(t1.error)
        THEN [t1 EXCEPT !.end_time = Some(now), !.res_body_size = Some(raw_size)]
        ELSE t1

(***************************************************************************)
(* Files.  A file is missing, unreadable, or holds `raw` bytes; for a file *)
(* written in a compressed format `payload` is what decompressing it       *)
(* gives: None when decompression fails, Some(bytes) otherwise.  An empty  *)
(* compressed file decompresses to nothing or not at all.  A Result is     *)
(* [ok |-> TRUE, val |-> v] or [ok |-> FALSE, kind |-> k].                 *)
(***************************************************************************)
Ok(v) == [ok |-> TRUE, val |-> v]
Err(k) == [ok |-> FALSE, kind |-> k]

Missing == [kind |-> "missing", raw |-> <<>>, payload |-> None]
Denied == [kind |-> "denied", raw |-> <<>>, payload |-> None]
File(raw, payload) == [kind |-> "file", raw |-> raw, payload |-> payload]

\* tokio::fs::read
fs_read(files, path) ==
    IF path \notin DOMAIN files \/ files[path].kind = "missing" THEN Err("NotFound")
    ELSE IF files[path].kind = "denied" THEN Err("PermissionDenied")
    ELSE Ok(files[path].raw)

\* std::str::from_utf8: whether the bytes are well-formed UTF-8
RECURSIVE is_utf8(_)
is_utf8(d) ==
    IF d = <<>> THEN TRUE
    ELSE LET n == Len(d)
             cont(i) == i <= n /\ d[i] \in 128..191
             rest(k) == is_utf8(SubSeq(d, k + 1, n))
         IN  IF d[1] < 128 THEN rest(1)
             ELSE IF d[1] \in 194..223 THEN cont(2) /\ rest(2)
             ELSE IF d[1] = 224 THEN n >= 2 /\ d[2] \in 160..191 /\ cont(3) /\ rest(3)
             ELSE IF d[1] = 237 THEN n >= 2 /\ d[2] \in 128..159 /\ cont(3) /\ rest(3)
             ELSE IF d[1] \in 225..239 THEN cont(2) /\ cont(3) /\ rest(3)
             ELSE IF d[1] = 240
                  THEN n >= 2 /\ d[2] \in 144..191 /\ cont(3) /\ cont(4) /\ rest(4)
             ELSE IF d[1] \in 241..243 THEN cont(2) /\ cont(3) /\ cont(4) /\ rest(4)
             ELSE IF d[1] = 244
                  THEN n >= 2 /\ d[2] \in 128..143 /\ cont(3) /\ cont(4) /\ rest(4)
             ELSE FALSE

\* tokio::fs::read_to_string: the content as text, InvalidData when it is not UTF-8
fs_read_to_string(files, path) ==
    LET r == fs_read(files, path)
    IN  IF ~r.ok THEN r
        ELSE IF is_utf8(r.val) THEN r
        ELSE Err("InvalidData")

\* utils::uncompress_data(encoding, path): the decompressed bytes of the file
uncompress_data(files, encoding, path) ==
    LET r == fs_read(files, path)
    IN  IF ~r.ok THEN r
        ELSE IF is_none(files[path].payload) THEN Err("InvalidData")
        ELSE Ok(unwrap(files[path].payload))

(***************************************************************************)
(* utils::base64_encode and utils::add_data_url_prefix                     *)
(***************************************************************************)
Base64Alphabet ==
    <<"A", "B", "C", "D", "E", "F", "G", "H", "I", "J", "K", "L", "M", "N", "O", "P",
      "Q", "R", "S", "T", "U", "V", "W", "X", "Y", "Z", "a", "b", "c", "d", "e", "f",
      "g", "h", "i", "j", "k", "l", "m", "n", "o", "p", "q", "r", "s", "t", "u", "v",
      "w", "x", "y", "z", "0", "1", "2", "3", "4", "5", "6", "7", "8", "9", "+", "/">>

RECURSIVE base64_encode(_)
base64_encode(d) ==
    IF d = <<>> THEN <<>>
    ELSE LET n == Len(d)
             b1 == d[1]
             b2 == IF n >= 2 THEN d[2] ELSE 0
             b3 == IF n >= 3 THEN d[3] ELSE 0
         IN  << Base64Alphabet[(b1 \div 4) + 1],
                Base64Alphabet[((b1 % 4) * 16 + (b2 \div 16)) + 1],
                IF n >= 2 THEN Base64Alphabet[((b2 % 16) * 4 + (b3 \div 64)) + 1] ELSE "=",
                IF n >= 3 THEN Base64Alphabet[(b3 % 64) + 1] ELSE "=" >>
             \o base64_encode(SubSeq(d, 4, n))

add_data_url_prefix(b64) == <<"data:;base64,">> \o b64

(***************************************************************************)
(* struct Body                                                             *)
(***************************************************************************)
\* Body::text; a text is the sequence of its UTF-8 bytes
Body_text(text) == [encode |-> "utf8", value |-> text, size |-> Len(text)]

\* Body::bytes
Body_bytes(data) ==
    IF is_utf8(data) THEN Body_text(data)
    ELSE [encode |-> "base64",
          value |-> add_data_url_prefix(base64_encode(data)),
          size |-> Len(data)]

\* Body::path
Body_path(path) == [encode |-> "path", value |-> path, size |-> 0]

\* Body::is_utf8
Body_is_utf8(body) == body.encode = "utf8"

\* Body::read without the emptiness tests
Body_read_keeps_empty(files, path, binary_in_base64) ==
    IF is_none(path) THEN None
    ELSE LET p == unwrap(path)
             encoding == find_encoding(p)
         IN  IF is_some(encoding)
             THEN LET data == uncompress_data(files, unwrap(encoding).encoding, p)
                  IN  IF ~data.ok THEN None
                      ELSE IF binary_in_base64 THEN Some(Body_bytes(data.val))
                      ELSE IF is_utf8(data.val) THEN Some(Body_text(data.val))
                      ELSE Some(Body_path(p))
             ELSE IF binary_in_base64
             THEN LET data == fs_read(files, p)
                  IN  IF ~data.ok THEN None
                      ELSE Some(Body_bytes(data.val))
             ELSE LET text == fs_read_to_string(files, p)
                      data == fs_read(files, p)
                  IN  IF text.ok
                      THEN IF ~data.ok THEN None ELSE Some(Body_bytes(data.val))
                      ELSE IF text.kind # "InvalidData" THEN None
                      ELSE IF ~data.ok THEN None
                      ELSE Some(Body_bytes(data.val))

\* Body::read; the file does not change while it is read
Body_read(files, path, binary_in_base64) ==
    IF is_none(path) THEN None
    ELSE LET p == unwrap(path)
             encoding == find_encoding(p)
         IN  IF is_some(encoding)
             THEN LET data == uncompress_data(files, unwrap(encoding).encoding, p)
                  IN  IF ~data.ok THEN None
                      ELSE IF data.val = <<>> THEN None
                      ELSE IF binary_in_base64 THEN Some(Body_bytes(data.val))
                      ELSE IF is_utf8(data.val) THEN Some(Body_text(data.val))
                      ELSE Some(Body_path(p))
             ELSE IF binary_in_base64
             THEN LET data == fs_read(files, p)
                  IN  IF ~data.ok THEN None
                      ELSE IF data.val = <<>> THEN None
                      ELSE Some(Body_bytes(data.val))
             ELSE LET text == fs_read_to_string(files, p)
                      data == fs_read(files, p)
                  IN  IF text.ok
                      THEN IF text.val = <<>> THEN None
                           ELSE IF ~data.ok THEN None
                           ELSE Some(Body_bytes(data.val))
                      ELSE IF text.kind # "InvalidData" THEN None
                      ELSE IF ~data.ok THEN None
                      ELSE Some(Body_bytes(data.val))

\* Traffic::bodies: the request body and the response body, the response one
\* read from the path without a trailing ".enc.gz"
bodies(t, files, binary_in_base64) ==
    LET res_file_path ==
            IF is_some(t.res_body_file)
                   /\ is_some(strip_suffix(unwrap(t.res_body_file), ".enc.gz"))
            THEN strip_suffix(unwrap(t.res_body_file), ".enc.gz")
            ELSE t.res_body_file
    IN  [req |-> Body_read(files, t.req_body_file, binary_in_base64),
         res |-> Body_read(files, res_file_path, binary_in_base64)]

(***************************************************************************)
(* The exports.  A rendered text is kept as the sequence of its parts.     *)
(***************************************************************************)
\* fn get_header_value: the value of the first header named `key`
get_header_value(headers, key) ==
    IF is_none(headers) THEN None
    ELSE LET items == unwrap(headers).items
             hits == {i \in DOMAIN items : items[i].name = key}
         IN  IF hits = {} THEN None
             ELSE Some(items[CHOOSE i \in hits : \A j \in hits : i <= j].value)

RECURSIVE trim(_)
trim(v) ==
    IF v # <<>> /\ Head(v) = " " THEN trim(Tail(v))
    ELSE IF v # <<>> /\ v[Len(v)] = " " THEN trim(SubSeq(v, 1, Len(v) - 1))
    ELSE v

\* fn extract_mime: the content-type up to its first ';', trimmed
extract_mime(headers) ==
    LET v == get_header_value(headers, "content-type")
    IN  IF is_none(v) THEN <<>>
        ELSE LET s == unwrap(v)
                 semis == {i \in DOMAIN s : s[i] = ";"}
             IN  IF semis = {} THEN s
                 ELSE trim(SubSeq(s, 1, (CHOOSE i \in semis : \A j \in semis : i <= j) - 1))

\* Traffic::oneline
oneline(t) == <<t.method, t.uri>> \o t.status

\* fn render_header
render_header(title, headers) == [title |-> title, items |-> headers.items]

\* fn render_body: a fenced text with the language of the content type, or a
\* link to the binary data
render_body(title, body, headers) ==
    IF Body_is_utf8(body)
    THEN [title |-> title, lang_of |-> extract_mime(headers), value |-> body.value]
    ELSE [title |-> title, binary_data |-> body.value]

\* fn render_error: fenced when the text has several lines
render_error(error) ==
    [title |-> "ERROR", fenced |-> \E i \in DOMAIN error : error[i] = "\n",
     value |-> error]

\* Traffic::markdown
markdown(t, files) ==
    LET b == bodies(t, files, FALSE)
    IN  << [title |-> oneline(t)] >>
        \o (IF is_some(t.req_headers)
            THEN <<render_header("REQUEST HEADERS", unwrap(t.req_headers))>> ELSE <<>>)
        \o (IF is_some(b.req)
            THEN <<render_body("REQUEST BODY", unwrap(b.req), t.req_headers)>> ELSE <<>>)
        \o (IF is_some(t.res_headers)
            THEN <<render_header("RESPONSE HEADERS", unwrap(t.res_headers))>> ELSE <<>>)
        \o (IF is_some(b.res)
            THEN <<render_body("RESPONSE BODY", unwrap(b.res), t.res_headers)>> ELSE <<>>)
        \o (IF is_some(t.error) THEN <<render_error(unwrap(t.error))>> ELSE <<>>)

\* fn har_headers
har_headers(headers) == IF is_some(headers) THEN unwrap(headers).items ELSE <<>>

\* fn har_size
har_size(size, default_value) == IF is_some(size) THEN unwrap(size) ELSE default_value

\* Option::unwrap_or_default
unwrap_or(o, default_value) == IF is_some(o) THEN unwrap(o) ELSE default_value

\* fn har_req_body
har_req_body(body, headers) ==
    [mimeType |-> unwrap_or(get_header_value(headers, "content-type"), <<>>),
     text |-> IF is_some(body) THEN unwrap(body).value ELSE <<>>]

\* fn har_res_body
har_res_body(body, raw_size, headers) ==
    LET content_type == unwrap_or(get_header_value(headers, "content-type"), <<>>)
    IN  IF is_some(body)
        THEN [size |-> raw_size, mimeType |-> content_type,
              text |-> unwrap(body).value,
              encoding |-> IF Body_is_utf8(unwrap(body)) THEN None ELSE Some("base64"),
              compression |-> unwrap(body).size - raw_size]
        ELSE [size |-> 0, mimeType |-> content_type, text |-> <<>>,
              encoding |-> None, compression |-> None]

\* Traffic::har_entry, without the cookie and query-string lists, which are
\* parsed from the headers and the uri alone
har_entry(t, files) ==
    LET b == bodies(t, files, TRUE)
        http_version == unwrap_or(t.http_version, "")
    IN  Some([startedDateTime |-> t.start_time,
              time |-> IF is_some(time(t)) THEN as_isize(unwrap(time(t))) ELSE -1,
              request |->
                  [method |-> t.method, url |-> t.uri, httpVersion |-> http_version,
                   headers |-> har_headers(t.req_headers),
                   postData |-> har_req_body(b.req, t.req_headers),
                   headersSize |->
                       har_size(IF is_some(t.req_headers)
                                THEN Some(unwrap(t.req_headers).size) ELSE None, 0),
                   bodySize |->
                       har_size(IF is_some(b.req) THEN Some(unwrap(b.req).size) ELSE None, 0)],
              response |->
                  [status |-> unwrap_or(t.status, 0), httpVersion |-> http_version,
                   headers |-> har_headers(t.res_headers),
                   content |-> har_res_body(b.res, unwrap_or(t.res_body_size, 0),
                                            t.res_headers),
                   redirectURL |->
                       unwrap_or(get_header_value(t.res_headers, "location"), <<>>),
                   headersSize |->
                       har_size(IF is_some(t.res_headers)
                                THEN Some(unwrap(t.res_headers).size) ELSE None, -1),
                   bodySize |-> har_size(t.res_body_size, -1)]])

\* fn wrap_entries
wrap_entries(entries) == [version |-> "1.2", creator |-> "ez-shark", entries |-> entries]

\* Traffic::har
har(t, files) == wrap_entries(har_entry(t, files))

\* the closure escape_single_quote of Traffic::curl
RECURSIVE escape_single_quote(_)
escape_single_quote(v) ==
    IF v = <<>> THEN <<>>
    ELSE (IF Head(v) = "'" THEN <<"'", "\\", "'", "'">> ELSE <<Head(v)>>)
             \o escape_single_quote(Tail(v))

\* the header loop skipping content-length only
RECURSIVE curl_headers_keeps_host(_)
curl_headers_keeps_host(items) ==
    IF items = <<>> THEN <<>>
    ELSE (IF Head(items).name \in {"content-length"} THEN <<>>
          ELSE << [flag |-> "-H",
                   arg |-> <<"'", Head(items).name, ": ">>
                               \o escape_single_quote(Head(items).value) \o <<"'">>] >>)
             \o curl_headers_keeps_host(Tail(items))

\* the header loop of Traffic::curl: one -H flag per header that is kept
RECURSIVE curl_headers(_)
curl_headers(items) ==
    IF items = <<>> THEN <<>>
    ELSE (IF Head(items).name \in {"content-length", "host"} THEN <<>>
          ELSE << [flag |-> "-H",
                   arg |-> <<"'", Head(items).name, ": ">>
                               \o escape_single_quote(Head(items).value) \o <<"'">>] >>)
             \o curl_headers(Tail(items))

\* Traffic::curl: the command as the sequence of its flags
curl(t, files) ==
    LET req_body == Body_read(files, t.req_body_file, FALSE)
    IN  << [flag |-> "curl", arg |-> t.uri] >>
        \o (IF t.method # "GET" THEN << [flag |-> "-X", arg |-> <<t.method>>] >> ELSE <<>>)
        \o curl_headers(IF is_some(t.req_headers) THEN unwrap(t.req_headers).items ELSE <<>>)
        \o (IF is_some(req_body)
            THEN << [flag |-> IF Body_is_utf8(unwrap(req_body)) THEN "-d" ELSE "-t",
                     arg |-> <<"shell_words::quote">> \o unwrap(req_body).value] >>
            ELSE <<>>)

\* Traffic::json: the record with the two resolved bodies laid over it
json(t, files) ==
    LET b == bodies(t, files, TRUE)
    IN  [record |-> t, req_body |-> b.req, res_body |-> b.res]

\* Traffic::export with every unknown format taken for the structured one
export_lenient(t, files, format) ==
    IF format = "markdown"
    THEN Ok(<<markdown(t, files), "text/markdown; charset=UTF-8">>)
    ELSE IF format = "har"
    THEN Ok(<<har(t, files), "application/json; charset=UTF-8">>)
    ELSE IF format = "curl"
    THEN Ok(<<curl(t, files), "text/plain; charset=UTF-8">>)
    ELSE IF format \in {"req-body", "res-body"}
    THEN LET body == IF format = "req-body"
                     THEN Body_read(files, t.req_body_file, FALSE)
                     ELSE Body_read(files, t.res_body_file, FALSE)
         IN  IF is_some(body)
             THEN Ok(<<unwrap(body).value, "text/plain; charset=UTF-8">>)
             ELSE Err(<<"No ", format, " data">>)
    ELSE Ok(<<json(t, files), "application/json; charset=UTF-8">>)

\* Traffic::export
export(t, files, format) ==
    IF format = "markdown"
    THEN Ok(<<markdown(t, files), "text/markdown; charset=UTF-8">>)
    ELSE IF format = "har"
    THEN Ok(<<har(t, files), "application/json; charset=UTF-8">>)
    ELSE IF format = "curl"
    THEN Ok(<<curl(t, files), "text/plain; charset=UTF-8">>)
    ELSE IF format \in {"req-body", "res-body"}
    THEN LET body == IF format = "req-body"
                     THEN Body_read(files, t.req_body_file, FALSE)
                     ELSE Body_read(files, t.res_body_file, FALSE)
         IN  IF is_some(body)
             THEN Ok(<<unwrap(body).value, "text/plain; charset=UTF-8">>)
             ELSE Err(<<"No ", format, " data">>)
    ELSE IF format = ""
    THEN Ok(<<json(t, files), "application/json; charset=UTF-8">>)
    ELSE Err(<<"Unsupported format: ", format>>)

(***************************************************************************)
(* The operations as steps of the capture task that owns `traffic`.  Each  *)
(* step records in `last` which operation ran, with what input, and what   *)
(* it returned.                                                            *)
(***************************************************************************)
Frame == UNCHANGED <<GLOBAL_ID, issued, fs, added>>

\* Traffic::new called by `task`; task 0 owns `traffic`, the others keep their
\* record to themselves and only its gid is followed
New(task, uri, method, session_id) ==
    /\ GLOBAL_ID <= MaxIds
    /\ LET r == fetch_add(GLOBAL_ID, 1)
       IN  /\ GLOBAL_ID' = r.counter
           /\ issued' = Append(issued, [task |-> task, gid |-> r.ret])
           /\ traffic' = IF task = 0
                         THEN Traffic_new(r.ret, uri, method, session_id)
                         ELSE traffic
           /\ added' = IF task = 0 THEN <<>> ELSE added
           /\ last' = [op |-> "new", task |-> task, gid |-> r.ret]
    /\ UNCHANGED <<clock, fs>>

AddError(error) ==
    /\ (IF is_some(traffic.error) THEN Len(unwrap(traffic.error)) + 1 ELSE 0)
           + Len(error) <= MaxErrLen
    /\ traffic' = add_error(traffic, error)
    /\ added' = Append(added, error)
    /\ last' = [op |-> "add_error", error |-> error]
    /\ UNCHANGED <<GLOBAL_ID, issued, clock, fs>>

SetReqHeaders(headers) ==
    /\ traffic' = set_req_headers(traffic, headers)
    /\ last' = [op |-> "set_req_headers"]
    /\ UNCHANGED clock /\ Frame

SetReqBodyFile(path) ==
    /\ traffic' = set_req_body_file(traffic, path)
    /\ last' = [op |-> "set_req_body_file"]
    /\ UNCHANGED clock /\ Frame

SetResStatus(status) ==
    /\ traffic' = set_res_status(traffic, status)
    /\ last' = [op |-> "set_res_status"]
    /\ UNCHANGED clock /\ Frame

SetTransactionState(state) ==
    /\ traffic' = set_transaction_state(traffic, state)
    /\ last' = [op |-> "set_transaction_state", state |-> state,
                before |-> traffic.transaction_state]
    /\ UNCHANGED clock /\ Frame

SetHttpVersion(http_version) ==
    /\ traffic' = set_http_version(traffic, http_version)
    /\ last' = [op |-> "set_http_version"]
    /\ UNCHANGED clock /\ Frame

SetResHeaders(headers) ==
    /\ traffic' = set_res_headers(traffic, headers)
    /\ last' = [op |-> "set_res_headers"]
    /\ UNCHANGED clock /\ Frame

SetResBodyFile(path) ==
    /\ traffic' = set_res_body_file(traffic, path)
    /\ last' = [op |-> "set_res_body_file"]
    /\ UNCHANGED clock /\ Frame

CheckMatch ==
    /\ traffic' = check_match(traffic)
    /\ last' = [op |-> "check_match"]
    /\ UNCHANGED clock /\ Frame

\* OffsetDateTime::now_utc() returns `now`, not earlier than its last value
SetStartTime(now) ==
    /\ now >= clock
    /\ clock' = now
    /\ traffic' = set_start_time(traffic, now)
    /\ last' = [op |-> "set_start_time"]
    /\ Frame

UncompressResFile(ok) ==
    /\ traffic' = uncompress_res_file(traffic, ok)
    /\ last' = [op |-> "uncompress_res_file", ok |-> ok,
                before |-> traffic.res_body_file]
    /\ UNCHANGED clock /\ Frame

DoneResBody(raw_size, now) ==
    /\ now >= clock
    /\ clock' = now
    /\ traffic' = done_res_body(traffic, raw_size, now)
    /\ last' = [op |-> "done_res_body", raw_size |-> raw_size,
                had_error |-> is_some(traffic.error)]
    /\ Frame

\* a call of Body::read by a reader of the record
BodyRead(path, binary_in_base64) ==
    /\ last' = [op |-> "Body::read", path |-> path,
                binary_in_base64 |-> binary_in_base64,
                ret |-> Body_read(fs, path, binary_in_base64)]
    /\ UNCHANGED <<GLOBAL_ID, traffic, issued, clock, fs, added>>

\* a call of Traffic::export(format) on the record, which it borrows unchanged
Export(format) ==
    /\ last' = [op |-> "export", format |-> format,
                ret |-> export(traffic, fs, format)]
    /\ UNCHANGED <<GLOBAL_ID, traffic, issued, clock, fs, added>>

\* a call of Traffic::curl on the record
Curl ==
    /\ last' = [op |-> "curl", ret |-> curl(traffic, fs)]
    /\ UNCHANGED <<GLOBAL_ID, traffic, issued, clock, fs, added>>

(***************************************************************************)
(* Inputs of the lifecycle specification.                                  *)
(***************************************************************************)
Times == 0..MaxTime
Sizes == 0..MaxSize
TheUri == <<"u">>
TheSession == "s"
Methods == {"GET", "POST"}
ReqHeaderMap == << [name |-> "host", value |-> <<"h">>] >>
ResHeaderMap == << [name |-> "content-type", value |-> <<"t">>] >>
ReqPath == <<"q">>
ResPaths == {<<"b">>, <<"b", ".enc.gz">>}
ErrorTexts == {<<"e">>}
States == {"Completed"}

NoFiles == [p \in {} |-> None]

Init ==
    /\ LET r == fetch_add(1, 1)
       IN  /\ GLOBAL_ID = r.counter
           /\ traffic = Traffic_new(r.ret, TheUri, "GET", TheSession)
           /\ issued = <<[task |-> 0, gid |-> r.ret]>>
           /\ last = [op |-> "new", task |-> 0, gid |-> r.ret]
    /\ clock = 0
    /\ added = <<>>
    /\ fs = NoFiles

Next ==
    \/ \E e \in ErrorTexts : AddError(e)
    \/ SetReqHeaders(ReqHeaderMap)
    \/ SetReqBodyFile(ReqPath)
    \/ SetResStatus(200)
    \/ \E s \in States : SetTransactionState(s)
    \/ SetHttpVersion("HTTP/1.1")
    \/ SetResHeaders(ResHeaderMap)
    \/ \E p \in ResPaths : SetResBodyFile(p)
    \/ CheckMatch
    \/ \E now \in Times : SetStartTime(now)
    \/ \E ok \in BOOLEAN : UncompressResFile(ok)
    \/ \E n \in Sizes, now \in Times : DoneResBody(n, now)

Spec == Init /\ [][Next]_vars

(***************************************************************************)
(* Specification of id allocation: the owner of `traffic` (task 0) and the *)
(* other capture tasks call Traffic::new in any interleaving, together     *)
(* with every operation on the owner's record.                             *)
(***************************************************************************)
Tasks == {0, 1}

NextIds ==
    \/ \E task \in Tasks, m \in Methods : New(task, TheUri, m, TheSession)
    \/ \E e \in ErrorTexts : AddError(e)
    \/ SetReqHeaders(ReqHeaderMap)
    \/ SetReqBodyFile(ReqPath)
    \/ SetResStatus(200)
    \/ SetTransactionState("Completed")
    \/ SetHttpVersion("HTTP/1.1")
    \/ SetResHeaders(ResHeaderMap)
    \/ SetResBodyFile(<<"b", ".enc.gz">>)
    \/ CheckMatch
    \/ SetStartTime(clock)
    \/ UncompressResFile(TRUE)
    \/ DoneResBody(MaxSize, clock)

SpecIds == Init /\ [][NextIds]_vars

(***************************************************************************)
(* Specification of the body resolver: the files on disk are drawn at the  *)
(* start, and Body::read is called on an absent path, a plain path and a   *)
(* path with a compressed-format suffix, in both modes.                    *)
(***************************************************************************)
\* 'A', and the two bytes of U+00E9, each of which alone is not UTF-8
Bytes == {65, 195, 169}

RECURSIVE SeqsUpTo(_, _)
SeqsUpTo(S, n) ==
    IF n = 0 THEN {<<>>}
    ELSE LET shorter == SeqsUpTo(S, n - 1)
         IN  shorter \cup {Append(q, x) : q \in shorter, x \in S}

ByteSeqs == SeqsUpTo(Bytes, MaxBody)

PlainPath == <<"p">>
GzPath == <<"p", ".enc.gz">>
BodyPaths == {PlainPath, GzPath}

PlainFiles == {Missing, Denied} \cup {File(d, None) : d \in ByteSeqs}

\* a compressed file is not empty unless it was cut short; <<31>> stands for
\* its bytes
CompressedFiles ==
    {Missing, Denied, File(<<>>, None), File(<<>>, Some(<<>>)), File(<<31>>, None)}
        \cup {File(<<31>>, Some(d)) : d \in ByteSeqs}

Disks ==
    {[p \in BodyPaths |-> IF p = PlainPath THEN a ELSE b] :
        a \in PlainFiles, b \in CompressedFiles}

PathRefs == {None} \cup {Some(p) : p \in BodyPaths}

InitRead ==
    /\ GLOBAL_ID = 2
    /\ issued = <<[task |-> 0, gid |-> 1]>>
    /\ last = [op |-> "new", task |-> 0, gid |-> 1]
    /\ traffic = Traffic_new(1, TheUri, "GET", TheSession)
    /\ clock = 0
    /\ added = <<>>
    /\ fs \in Disks

NextRead ==
    \E path \in PathRefs, b \in BOOLEAN : BodyRead(path, b)

SpecRead == InitRead /\ [][NextRead]_vars

(***************************************************************************)
(* Specification of the export dispatch: a record with or without body     *)
(* files, over every disk, exported in every format and in formats that do *)
(* not exist.                                                              *)
(***************************************************************************)
Formats == {"", "markdown", "har", "curl", "req-body", "res-body"}
OtherFormats == {"bogus-format", "HAR"}

\* the record after the capture task has set the body files
Captured(req, res) ==
    LET t0 == Traffic_new(1, TheUri, "GET", TheSession)
        t1 == IF is_some(req) THEN set_req_body_file(t0, unwrap(req)) ELSE t0
    IN  IF is_some(res) THEN set_res_body_file(t1, unwrap(res)) ELSE t1

InitExport ==
    /\ GLOBAL_ID = 2
    /\ issued = <<[task |-> 0, gid |-> 1]>>
    /\ last = [op |-> "new", task |-> 0, gid |-> 1]
    /\ clock = 0
    /\ added = <<>>
    /\ fs \in Disks
    /\ \E req \in PathRefs, res \in PathRefs : traffic = Captured(req, res)

NextExport ==
    \E format \in Formats \cup OtherFormats : Export(format)

SpecExport == InitExport /\ [][NextExport]_vars

(***************************************************************************)
(* Specification of the cURL export: a record with every list of at most   *)
(* MaxHeaders request headers, either method, with and without a body.     *)
(***************************************************************************)
HeaderNames == {"content-length", "host", "accept"}
HeaderValues == {<<"v">>, <<"'">>}
HeaderMaps ==
    SeqsUpTo({[name |-> n, value |-> v] : n \in HeaderNames, v \in HeaderValues},
             MaxHeaders)

CurlDisks ==
    {[p \in BodyPaths |-> IF p = PlainPath THEN a ELSE Missing] :
        a \in {Missing, File(<<65>>, None), File(<<195>>, None)}}

InitCurl ==
    /\ GLOBAL_ID = 2
    /\ issued = <<[task |-> 0, gid |-> 1]>>
    /\ last = [op |-> "new", task |-> 0, gid |-> 1]
    /\ clock = 0
    /\ added = <<>>
    /\ fs \in CurlDisks
    /\ \E m \in Methods, h \in HeaderMaps, req \in {None, Some(PlainPath)} :
           LET t0 == set_req_headers(Traffic_new(1, TheUri, m, TheSession), h)
           IN  traffic = IF is_some(req) THEN set_req_body_file(t0, unwrap(req)) ELSE t0

NextCurl == Curl

SpecCurl == InitCurl /\ [][NextCurl]_vars

(***************************************************************************)
(* Properties of the record and of id allocation.                          *)
(***************************************************************************)
\* the gids task 0 received, in the order it received them
RECURSIVE GidsOf(_, _)
GidsOf(task, hist) ==
    IF hist = <<>> THEN <<>>
    ELSE (IF Head(hist).task = task THEN <<Head(hist).gid>> ELSE <<>>)
             \o GidsOf(task, Tail(hist))

\* C1: every call to Traffic::new, by whichever task, receives a gid no other
\* call receives; gids increase strictly in the order of the fetch_add calls;
\* and the owner's record keeps the gid of its creation under every operation.
C1_GidUniqueIncreasingStable ==
    /\ \A i, j \in DOMAIN issued :
           /\ i # j => issued[i].gid # issued[j].gid
           /\ i < j => issued[i].gid < issued[j].gid
    /\ LET mine == GidsOf(0, issued)
       IN  /\ mine # <<>>
           /\ traffic.gid = mine[Len(mine)]

\* C1 witness: task 0 created two records with a creation by another task in
\* between, and operations ran on the second record
C1_Witness ==
    /\ Len(issued) = 3
    /\ issued[1].task = 0 /\ issued[2].task = 1 /\ issued[3].task = 0
    /\ last.op = "done_res_body"
    /\ is_some(traffic.error)
    /\ traffic.transaction_state = "Completed"

\* C2 as stated: after done_res_body(n), n > 0, called with error text already
\* recorded, end_time and res_body_size are unset and time() is absent; called
\* with no error recorded, end_time is stamped and res_body_size is n.
C2_Original ==
    (last.op = "done_res_body" /\ last.raw_size > 0) =>
        IF last.had_error
        THEN /\ is_none(traffic.end_time)
             /\ is_none(traffic.res_body_size)
             /\ is_none(time(traffic))
        ELSE /\ traffic.end_time = Some(clock)
             /\ traffic.res_body_size = Some(last.raw_size)

\* C2 amended: done_res_body(n), n > 0, called with error text already recorded
\* leaves end_time and res_body_size as they were (so time() stays absent when
\* end_time was unset before the call); called with no error recorded it stamps
\* end_time with the current time and sets res_body_size to n.
C2_DoneResBodyKeepsOrStamps ==
    [][\A n \in 1..MaxSize, now \in Times :
          DoneResBody(n, now) =>
              IF is_some(traffic.error)
              THEN /\ traffic'.end_time = traffic.end_time
                   /\ traffic'.res_body_size = traffic.res_body_size
                   /\ (is_none(traffic.end_time) => is_none(time(traffic')))
              ELSE /\ traffic'.end_time = Some(now)
                   /\ traffic'.res_body_size = Some(n)]_vars

\* C2 witness: done_res_body(n > 0) ran on a record with an error and a start
\* time, and left end_time and res_body_size unset
C2_Witness ==
    /\ last.op = "done_res_body" /\ last.raw_size > 0 /\ last.had_error
    /\ is_some(traffic.start_time)
    /\ is_none(traffic.end_time) /\ is_none(traffic.res_body_size)

\* C3 as stated: whenever error text is present, end_time is absent and time()
\* is absent.
C3_Original ==
    is_some(traffic.error) =>
        is_none(traffic.end_time) /\ is_none(time(traffic))

\* C3 amended: once error text is present no operation changes end_time or
\* removes the error, so a record whose first error was recorded while end_time
\* was absent has end_time and time() absent in every later state, whatever the
\* lifecycle state.
C3_ErrorFreezesEndTime ==
    [][is_some(traffic.error) =>
          /\ is_some(traffic'.error)
          /\ traffic'.end_time = traffic.end_time
          /\ (is_none(traffic.end_time) => is_none(time(traffic')))]_vars

\* C3 witness: a Completed record with error text and a start time on which
\* done_res_body ran after the error, with no end_time
C3_Witness ==
    /\ is_some(traffic.error)
    /\ traffic.transaction_state = "Completed"
    /\ is_some(traffic.start_time)
    /\ last.op = "done_res_body" /\ last.had_error
    /\ is_none(traffic.end_time)

\* C4 as stated: after uncompress_res_file ran on a res_body_file with a
\* recognized suffix, res_body_file is the path without the suffix when the
\* decompression succeeded and still the original path when it failed.
C4_FailedUncompressKeepsPath ==
    (/\ last.op = "uncompress_res_file"
     /\ is_some(last.before)
     /\ is_some(find_encoding(unwrap(last.before)))) =>
        traffic.res_body_file =
            IF last.ok
            THEN Some(unwrap(find_encoding(unwrap(last.before))).new_path)
            ELSE last.before

\* C8 as stated: when start_time and end_time are both present, end_time is
\* not earlier than start_time and time() is not negative.
C8_EndNotBeforeStart ==
    (is_some(traffic.start_time) /\ is_some(traffic.end_time)) =>
        /\ unwrap(traffic.end_time) >= unwrap(traffic.start_time)
        /\ unwrap(time(traffic)).pow64 = 0
        /\ unwrap(time(traffic)).rest >= 0

\* C9 as stated: a record whose res_body_size is 0 has no res_body_file.
C9_SizeZeroHasNoFile ==
    traffic.res_body_size = Some(0) => is_none(traffic.res_body_file)

(***************************************************************************)
(* Properties of the body resolver and of the exports.  What a path holds  *)
(* is read off the disk directly, not through Body::read.                  *)
(***************************************************************************)
HasEncodingExt(path) ==
    path # <<>> /\ \E i \in DOMAIN ENCODING_EXTS : path[Len(path)] = ENCODING_EXTS[i][2]

\* the content a reader of `path` obtains: the decompressed bytes under a
\* compressed-format suffix, the raw bytes otherwise; None when there is none
Content(files, path) ==
    IF files[path].kind # "file" THEN None
    ELSE IF HasEncodingExt(path) THEN files[path].payload
    ELSE Some(files[path].raw)

\* the cases in which there is no body to return
NoBodyCase(files, path) ==
    \/ is_none(path)
    \/ /\ is_some(path)
       /\ \/ is_none(Content(files, unwrap(path)))
          \/ Content(files, unwrap(path)) = Some(<<>>)
          \/ files[unwrap(path)].raw = <<>>

\* C5 as stated: for readable, non-empty content that is not UTF-8, Body::read
\* returns a base64 Body (data-URL value, size = byte length) in base64 mode
\* and a path Body carrying the path otherwise; for UTF-8 content it returns a
\* utf8 Body of that size in both modes; for plain and for compressed paths.
C5_ReadClassifies ==
    (last.op = "Body::read" /\ ~NoBodyCase(fs, last.path)) =>
        LET p == unwrap(last.path)
            c == unwrap(Content(fs, p))
        IN  /\ is_some(last.ret)
            /\ IF is_utf8(c)
               THEN /\ unwrap(last.ret).encode = "utf8"
                    /\ unwrap(last.ret).value = c
                    /\ unwrap(last.ret).size = Len(c)
               ELSE IF last.binary_in_base64
               THEN /\ unwrap(last.ret).encode = "base64"
                    /\ unwrap(last.ret).value = add_data_url_prefix(base64_encode(c))
                    /\ unwrap(last.ret).size = Len(c)
               ELSE /\ unwrap(last.ret).encode = "path"
                    /\ unwrap(last.ret).value = p

\* C6: Body::read returns no body, in either mode, for an absent path, a
\* missing or unreadable file, a failed decompression and empty content.
C6_ReadDegradesToNone ==
    (last.op = "Body::read" /\ NoBodyCase(fs, last.path)) => last.ret = None

\* C6 witness: Body::read ran on a compressed file that does not decompress
C6_Witness ==
    /\ last.op = "Body::read"
    /\ last.path = Some(GzPath)
    /\ fs[GzPath] = File(<<31>>, None)
    /\ last.ret = None

MimeOf(format) ==
    IF format = "markdown" THEN "text/markdown; charset=UTF-8"
    ELSE IF format \in {"har", ""} THEN "application/json; charset=UTF-8"
    ELSE "text/plain; charset=UTF-8"

\* C7: export(format) returns (content, MIME type) for "", "markdown", "har"
\* and "curl"; for "req-body" / "res-body" it succeeds exactly when the body
\* resolves and fails with "No <format> data" otherwise; every other format
\* fails with "Unsupported format"; and no call changes the record.
C7_ExportDispatch ==
    [][last'.op = "export" =>
          LET f == last'.format
              r == last'.ret
          IN  /\ traffic' = traffic
              /\ IF f \in {"", "markdown", "har", "curl"}
                 THEN r.ok /\ r.val[2] = MimeOf(f)
                 ELSE IF f \in {"req-body", "res-body"}
                 THEN LET ref == IF f = "req-body" THEN traffic.req_body_file
                                 ELSE traffic.res_body_file
                      IN  /\ r.ok <=> ~NoBodyCase(fs, ref)
                          /\ r.ok => r.val[2] = MimeOf(f)
                          /\ ~r.ok => r.kind = <<"No ", f, " data">>
                 ELSE ~r.ok /\ r.kind = <<"Unsupported format: ", f>>]_vars

\* C7 witness: export("res-body") failed on a record that names a response
\* body file
C7_Witness ==
    /\ last.op = "export"
    /\ last.format = "res-body"
    /\ is_some(traffic.res_body_file)
    /\ ~last.ret.ok

IsHFlag(segment) == segment.flag = "-H"
IsXFlag(segment) == segment.flag = "-X"
IsKeptHeader(header) == header.name \notin {"content-length", "host"}

ChunkSize == 16

\* slice::chunks(size): consecutive pieces of `size` elements, the last one
\* shorter when the length is no multiple of it
RECURSIVE chunks(_, _)
chunks(bytes, size) ==
    IF bytes = <<>> THEN <<>>
    ELSE IF Len(bytes) <= size THEN <<bytes>>
    ELSE <<SubSeq(bytes, 1, size)>> \o chunks(SubSeq(bytes, size + 1, Len(bytes)), size)

\* BodyHex::new with the upper end of the printable range left out
BodyHex_new_exclusive(offset_address, hex) ==
    [offset_address |-> offset_address,
     hex |-> hex,
     character_view |->
         [i \in 1..Len(hex) |-> IF hex[i] >= 32 /\ hex[i] < 126 THEN hex[i] ELSE 32]]

\* BodyHex::new
BodyHex_new(offset_address, hex) ==
    [offset_address |-> offset_address,
     hex |-> hex,
     character_view |->
         [i \in 1..Len(hex) |-> IF hex[i] >= 32 /\ hex[i] <= 126 THEN hex[i] ELSE 32]]

\* fn bytes_to_hex_structs: current_offset starts at 0 and grows by 16 a chunk
bytes_to_hex_structs(bytes) ==
    LET cs == chunks(bytes, ChunkSize)
    IN  [k \in 1..Len(cs) |-> BodyHex_new((k - 1) * 16, cs[k])]

\* fn string_to_body_hex, on the bytes of the string
string_to_body_hex(s) ==
    LET cs == chunks(s, ChunkSize)
    IN  [k \in 1..Len(cs) |->
            [offset_address |-> (k - 1) * 16,
             hex |-> cs[k],
             character_view |->
                 [i \in 1..Len(cs[k]) |->
                     IF cs[k][i] >= 32 /\ cs[k][i] <= 126 THEN cs[k][i] ELSE 32]]]

BytesToHexStructs(bytes) ==
    /\ last' = [op |-> "bytes_to_hex_structs", bytes |-> bytes,
                ret |-> bytes_to_hex_structs(bytes)]
    /\ UNCHANGED <<GLOBAL_ID, traffic, issued, clock, fs, added>>

\* a &str holds UTF-8 only
StringToBodyHex(s) ==
    /\ is_utf8(s)
    /\ last' = [op |-> "string_to_body_hex", bytes |-> s,
                ret |-> string_to_body_hex(s)]
    /\ UNCHANGED <<GLOBAL_ID, traffic, issued, clock, fs, added>>

(***************************************************************************)
(* Specification of the hex formatter: inputs of every length from 1 to    *)
(* MaxHexLen whose bytes alternate between two bytes taken from the ends   *)
(* of the printable range, just outside it, and a two-byte character.      *)
(***************************************************************************)
MaxHexLen == 33

HexBytes == {31, 32, 126, 127, 195, 169}

HexInputs ==
    {[i \in 1..n |-> IF i % 2 = 1 THEN a ELSE b] :
        n \in 1..MaxHexLen, a \in HexBytes, b \in HexBytes}

InitHex ==
    /\ GLOBAL_ID = 2
    /\ issued = <<[task |-> 0, gid |-> 1]>>
    /\ last = [op |-> "new", task |-> 0, gid |-> 1]
    /\ traffic = Traffic_new(1, TheUri, "GET", TheSession)
    /\ clock = 0
    /\ added = <<>>
    /\ fs = NoFiles

NextHex ==
    \/ \E bytes \in HexInputs : BytesToHexStructs(bytes)
    \/ \E s \in HexInputs : StringToBodyHex(s)

SpecHex == InitHex /\ [][NextHex]_vars

RECURSIVE Flatten(_)
Flatten(rows) == IF rows = <<>> THEN <<>> ELSE Head(rows).hex \o Flatten(Tail(rows))

\* C11: for a non-empty input of n bytes, bytes_to_hex_structs and
\* string_to_body_hex each return ceil(n/16) rows whose bytes, put end to end,
\* are the input; row i (from 0) has offset 16*i and 16 bytes, the last row
\* n mod 16 bytes (16 when n is a multiple of 16); each character view has one
\* character per byte, the byte itself for 0x20-0x7E and a space otherwise;
\* and the two functions return the same rows for the same bytes.
C11_HexRows ==
    (last.op \in {"bytes_to_hex_structs", "string_to_body_hex"}) =>
        LET n == Len(last.bytes)
            rows == last.ret
        IN  /\ n > 0
            /\ Len(rows) = (n + 15) \div 16
            /\ Flatten(rows) = last.bytes
            /\ \A k \in DOMAIN rows :
                   /\ rows[k].offset_address = 16 * (k - 1)
                   /\ Len(rows[k].hex) =
                          IF k < Len(rows) THEN 16
                          ELSE IF n % 16 = 0 THEN 16 ELSE n % 16
                   /\ Len(rows[k].character_view) = Len(rows[k].hex)
                   /\ \A i \in DOMAIN rows[k].hex :
                          rows[k].character_view[i] =
                              IF rows[k].hex[i] \in 32..126 THEN rows[k].hex[i] ELSE 32
            /\ (is_utf8(last.bytes) =>
                    bytes_to_hex_structs(last.bytes) = string_to_body_hex(last.bytes))

\* C11 witness: string_to_body_hex ran on 33 bytes alternating '~' and DEL and
\* returned three rows, the last of one byte
C11_Witness ==
    /\ last.op = "string_to_body_hex"
    /\ Len(last.bytes) = 33
    /\ last.bytes[1] = 126 /\ last.bytes[2] = 127
    /\ Len(last.ret) = 3
    /\ Len(last.ret[3].hex) = 1

(***************************************************************************)
(* Fields of the record by the side of the exchange they describe.         *)
(***************************************************************************)
OptionalFields ==
    {"req_headers", "req_body_file", "req_body_hex", "status", "http_version",
     "res_headers", "res_body_file", "res_body_size", "res_body_hex",
     "start_time", "end_time", "websocket_id", "error"}

ResponseFields ==
    {"status", "http_version", "res_headers", "res_body_file", "res_body_size"}

RequestAndNeutralOps ==
    {"set_req_headers", "set_req_body_file", "set_start_time", "add_error",
     "set_transaction_state", "check_match", "uncompress_res_file"}

\* C12: a freshly created record is Pending with every optional field absent,
\* and a step of set_req_headers, set_req_body_file, set_start_time, add_error,
\* set_transaction_state, check_match or uncompress_res_file never turns an
\* absent response-side field (status, http_version, res_headers,
\* res_body_file, res_body_size) into a present one.
C12_ResponseSideStaysAbsent ==
    /\ []((last.op = "new" /\ last.task = 0) =>
             /\ traffic.transaction_state = "Pending"
             /\ \A f \in OptionalFields : is_none(traffic[f]))
    /\ [][(last'.op \in RequestAndNeutralOps) =>
             \A f \in ResponseFields :
                 is_none(traffic[f]) => is_none(traffic'[f])]_vars

\* C12 witness: every request-side and neutral field has been written and
\* uncompress_res_file has just run on a record with no response file; the
\* response side is still absent
C12_Witness ==
    /\ last.op = "uncompress_res_file" /\ is_none(last.before)
    /\ is_some(traffic.req_headers) /\ is_some(traffic.req_body_file)
    /\ is_some(traffic.start_time) /\ is_some(traffic.error)
    /\ traffic.transaction_state = "Completed"
    /\ \A f \in ResponseFields : is_none(traffic[f])

(***************************************************************************)
(* Specification of the transaction state: every operation of the record,  *)
(* with set_transaction_state taking each of the seven states.             *)
(***************************************************************************)
NextState ==
    \/ \E s \in TransactionState : SetTransactionState(s)
    \/ \E e \in ErrorTexts : AddError(e)
    \/ SetReqHeaders(ReqHeaderMap)
    \/ SetReqBodyFile(ReqPath)
    \/ SetResStatus(200)
    \/ SetHttpVersion("HTTP/1.1")
    \/ SetResHeaders(ResHeaderMap)
    \/ SetResBodyFile(<<"b", ".enc.gz">>)
    \/ CheckMatch
    \/ SetStartTime(clock)
    \/ UncompressResFile(TRUE)
    \/ \E n \in Sizes : DoneResBody(n, clock)

SpecState == Init /\ [][NextState]_vars

TerminalStates == {"Completed", "Failed", "Aborted"}

\* C13: set_transaction_state(s) takes effect from every current state, the
\* terminal states Completed, Failed and Aborted included: after it
\* transaction_state is s and every other field of the record is as before;
\* and a step of any other record operation leaves transaction_state as it was.
C13_OnlySetTransactionStateMoves ==
    [][/\ (last'.op = "set_transaction_state" =>
              traffic' = [traffic EXCEPT !.transaction_state = last'.state])
       /\ (last'.op # "set_transaction_state" =>
              traffic'.transaction_state = traffic.transaction_state)]_vars

\* C13 witness: set_transaction_state(Pending) ran on a record that was in a
\* terminal state and carried an error and a finished response, and the record
\* is Pending again
C13_Witness ==
    /\ last.op = "set_transaction_state"
    /\ last.before \in TerminalStates /\ last.state = "Pending"
    /\ traffic.transaction_state = "Pending"
    /\ is_some(traffic.error) /\ is_some(traffic.end_time)

\* C14 as stated: time() returns a value exactly when both start_time and
\* end_time are set, and that value is end_time minus start_time in whole
\* milliseconds; so a record with done_res_body but no set_start_time, or with
\* set_start_time but no finalizing done_res_body, has no elapsed time.
C14_TimeIsEndMinusStart ==
    /\ is_some(time(traffic)) <=>
           (is_some(traffic.start_time) /\ is_some(traffic.end_time))
    /\ is_some(time(traffic)) =>
           /\ unwrap(time(traffic)).pow64 = 0
           /\ unwrap(time(traffic)).rest =
                  unwrap(traffic.end_time) - unwrap(traffic.start_time)

(***************************************************************************)
(* Specification of the error text: add_error with two different messages, *)
(* interleaved with every other operation of the record.                   *)
(***************************************************************************)
ErrorMessages == {<<"a">>, <<"b">>}

NextErrors ==
    \/ \E e \in ErrorMessages : AddError(e)
    \/ SetReqHeaders(ReqHeaderMap)
    \/ SetReqBodyFile(ReqPath)
    \/ SetResStatus(200)
    \/ SetTransactionState("Completed")
    \/ SetHttpVersion("HTTP/1.1")
    \/ SetResHeaders(ResHeaderMap)
    \/ SetResBodyFile(<<"b", ".enc.gz">>)
    \/ CheckMatch
    \/ SetStartTime(clock)
    \/ UncompressResFile(TRUE)
    \/ \E n \in Sizes : DoneResBody(n, clock)

SpecErrors == Init /\ [][NextErrors]_vars

\* the messages of a non-empty list, joined by single newlines
RECURSIVE JoinLines(_)
JoinLines(ms) ==
    IF Len(ms) = 1 THEN Head(ms)
    ELSE Head(ms) \o <<"\n">> \o JoinLines(Tail(ms))

\* C15: after add_error calls with messages m1..mk (k >= 1), interleaved with
\* any other record operations, the error text is m1, ..., mk joined by single
\* newlines in call order; with no add_error call it is absent; no other
\* operation modifies or clears it.
C15_ErrorIsJoinedMessages ==
    traffic.error = IF added = <<>> THEN None ELSE Some(JoinLines(added))

\* C15 witness: add_error ran with "b", "a", "b" in that order, other
\* operations ran too, the last of them done_res_body, and the text is b\na\nb
C15_Witness ==
    /\ added = << <<"b">>, <<"a">>, <<"b">> >>
    /\ last.op = "done_res_body"
    /\ is_some(traffic.start_time) /\ is_some(traffic.res_body_file)
    /\ traffic.transaction_state = "Completed"
    /\ traffic.error = Some(<<"b", "\n", "a", "\n", "b">>)

====
